---- MODULE Spec2Model ----
(***************************************************************************)
(* Model of the VSTImage plugin rack (src/src/rack/mod.rs): a chain of     *)
(* effect units, a version stack of tiled images, and an incremental job   *)
(* (position, total, finished) that is stepped by the caller's loop.       *)
(*                                                                         *)
(* Sequences are 1-based here and 0-based in the source: tile index i of   *)
(* the source is splits[i + 1], plugin id i is plugins[i + 1].             *)
(***************************************************************************)
EXTENDS Integers, Sequences, FiniteSets, TLC

(* ------------------------------ bounds --------------------------------- *)
MaxW == 3          \* widest image that is loaded, in pixels
MaxH == 3          \* tallest image that is loaded, in pixels
MaxPlugins == 1    \* longest effect chain
MaxLoads == 2      \* image loads (successful or failed) in one run
MaxJobs == 2       \* successful start_process calls in one run
MaxAreas == 1      \* process_area calls in one run

(* ------------------------- program constants --------------------------- *)
\* Tile extent.  The repository uses 256 x 256 tiles (the block size of
\* start_process is 256 * 256); the model scales the extent down to 2 x 2.
IMAGE_SPLIT_W == 2
IMAGE_SPLIT_H == 2
\* Largest value of a pixel channel (255 in the repository).
MaxPix == 2
\* Fixed-point units of one pixel level in a normalised sample.
SampleStep == 2
\* Fixed-point value of wet = 1.0.
WetOne == 2

FullScale == MaxPix * SampleStep

Min(a, b) == IF a < b THEN a ELSE b
Max(a, b) == IF a > b THEN a ELSE b
Last(s) == s[Len(s)]
Front(s) == SubSeq(s, 1, Len(s) - 1)
CeilDiv(a, b) == (a + b - 1) \div b

(* ------------------------------ Tile Set ------------------------------- *)
\* Content of pixel (x, y) of a freshly loaded image.
SourcePixel(x, y) == (x + 2 * y + 1) % (MaxPix + 1)

\* SplittedImage::new: a row-major grid of tiles of at most
\* IMAGE_SPLIT_W x IMAGE_SPLIT_H pixels; the last column / row is smaller
\* when the image size is not a multiple of the extent.
NewSplittedImage(W, H) ==
    LET cols == CeilDiv(W, IMAGE_SPLIT_W)
        rows == CeilDiv(H, IMAGE_SPLIT_H)
        tile(i) ==
            LET cx == (i - 1) % cols
                cy == (i - 1) \div cols
                x0 == cx * IMAGE_SPLIT_W
                y0 == cy * IMAGE_SPLIT_H
                tw == Min(IMAGE_SPLIT_W, W - x0)
                th == Min(IMAGE_SPLIT_H, H - y0)
            IN  [x |-> x0, y |-> y0, w |-> tw, h |-> th,
                 data |-> [k \in 1..(tw * th) |->
                              SourcePixel(x0 + ((k - 1) % tw),
                                          y0 + ((k - 1) \div tw))],
                 needs_update |-> TRUE]
    IN  [width |-> W, height |-> H,
         splits |-> [i \in 1..(cols * rows) |-> tile(i)]]

\* SplittedImage::request_all_update: every tile needs a redraw.
request_all_update(img) ==
    [img EXCEPT !.splits =
        [i \in 1..Len(img.splits) |->
            [img.splits[i] EXCEPT !.needs_update = TRUE]]]

\* The pixels of a version, tile by tile (dirty flags left out).
Pixels(img) == [i \in 1..Len(img.splits) |-> img.splits[i].data]

AllDirty(img) == \A i \in 1..Len(img.splits) : img.splits[i].needs_update

(* ---------------------------- Sample Codec ----------------------------- *)
\* processing::rgba_to_sample: one channel value to a normalised sample.
rgba_to_sample(pixel) == pixel * SampleStep

\* processing::sample_to_rgba: blend the processed sample into the channel,
\* new = old * (1 - wet) + mapped(sample) * wet, clamped to the pixel range.
sample_to_rgba(sample, wet, pixel) ==
    LET clamped == Max(0, Min(FullScale, sample))
        mapped == clamped \div SampleStep
        mixed == (pixel * (WetOne - wet) + mapped * wet) \div WetOne
    IN  Max(0, Min(MaxPix, mixed))

(* ----------------------------- Effect unit ----------------------------- *)
\* What the loaded unit computes for one sample (Plugin::process of the
\* external unit): "copy" mirrors its input, "invert" flips it.
EffectOf(effect, sample) ==
    IF effect = "copy" THEN sample ELSE FullScale - sample

\* The units load_plugin can load: channel count and effect.
CopyUnit == [inputs |-> 1, effect |-> "copy"]
InvertUnit == [inputs |-> 1, effect |-> "invert"]
GeneratorUnit == [inputs |-> 0, effect |-> "copy"]
PluginKinds == {CopyUnit, InvertUnit, GeneratorUnit}

\* PluginRackInstance::new followed by initialize(): a loaded instance that
\* is neither resumed nor processing and has no negotiated block size.
NewPlugin(kind) ==
    [instance |-> TRUE, bypass |-> FALSE, inputs |-> kind.inputs,
     effect |-> kind.effect, wet |-> WetOne,
     resumed |-> FALSE, started |-> FALSE, block |-> 0]

\* A handle whose binary is missing: descriptor only, instance = None.
MissingPlugin ==
    [instance |-> FALSE, bypass |-> FALSE, inputs |-> 1,
     effect |-> "copy", wet |-> WetOne,
     resumed |-> FALSE, started |-> FALSE, block |-> 0]

\* Block size negotiated by start_process (256 * 256 in the repository, the
\* sample count of a full tile).
JobBlockSize == IMAGE_SPLIT_W * IMAGE_SPLIT_H

\* One lifecycle call on the instance of plugins[id + 1], with the state the
\* instance is in when it receives the call; len is the length of each
\* channel buffer of a process call (0 for the other calls).
Call(op, i, p, len) ==
    [op |-> op, id |-> i - 1, resumed |-> p.resumed, started |-> p.started,
     block |-> p.block, len |-> len]

\* A handle that process_next / process_area run: it has an instance, is not
\* bypassed and has at least one input channel.
Active(p) == p.instance /\ ~p.bypass /\ p.inputs > 0

\* The buffers of one process call over `data` (pixels in raster order):
\* every channel starts with one zero sample, then one sample per pixel.
InputBuffer(data) ==
    <<0>> \o [k \in 1..Len(data) |-> rgba_to_sample(data[k])]

OutputBuffer(p, data) ==
    LET inputs == InputBuffer(data)
    IN  [k \in 1..Len(inputs) |-> EffectOf(p.effect, inputs[k])]

\* The write-back loop: pixels zipped with the output channel from its
\* first element on.
WriteBack(p, data) ==
    LET outputs == OutputBuffer(p, data)
    IN  [k \in 1..Len(data) |-> sample_to_rgba(outputs[k], p.wet, data[k])]

(* ------------------------------- state --------------------------------- *)
VARIABLES
    plugins,    \* PluginRack.plugins: the effect chain
    images,     \* PluginRack.images: the version stack, last = live
    position,   \* PluginRack.position
    total,      \* PluginRack.total
    finished,   \* PluginRack.finished
    panicked,   \* the last operation panicked (unwrap / index / underflow)
    calls,      \* lifecycle calls made on the instances by the last operation
    job,        \* history of the job started last: clean while nothing but
                \* its own steps has happened since, kept (not clean) by undo
    loaded,     \* an image has been loaded successfully
    last,       \* the rack operation called last, and the stack depth it found
    budget      \* what the run may still do: loads, jobs, area calls and
                \* insertions left, the largest image size it loads and the
                \* units it loads

vars == <<plugins, images, position, total, finished, panicked, calls, job,
          loaded, last, budget>>

NoJob == [clean |-> FALSE, steps |-> 0, n |-> 0, base |-> <<>>]

Called(name) == last' = [op |-> name, depth |-> Len(images)]

\* PluginRack::new, with what the run may do.
NewRack(b) ==
    /\ plugins = <<>>
    /\ images = <<>>
    /\ position = 0
    /\ total = 0
    /\ finished = TRUE
    /\ panicked = FALSE
    /\ calls = <<>>
    /\ job = NoJob
    /\ loaded = FALSE
    /\ last = [op |-> "new", depth |-> 0]
    /\ budget = b

\* compute_complete_percentage: (position as f32 / total as f32 * 100.0) as
\* usize.  0 / 0 is NaN and x / 0 is +inf for x > 0; the cast sends NaN to 0
\* and saturates +inf.  For the totals of the model the f32 result truncates
\* to the integer quotient.  UsizeMax stands for usize::MAX (the largest
\* integer TLC represents).
UsizeMax == 2147483647

\* Faulty variant: the share of the tiles still to do.
PercentageRemaining(pos, tot) ==
    IF tot = 0 THEN 0 ELSE ((tot - pos) * 100) \div tot

Percentage(pos, tot) ==
    IF tot = 0
    THEN (IF pos = 0 THEN 0 ELSE UsizeMax)
    ELSE (pos * 100) \div tot

compute_complete_percentage == Percentage(position, total)

(* --------------------------- image loading ----------------------------- *)
Spend(field) == [budget EXCEPT ![field] = @ - 1]

\* The body shared by load_image and load_image_data: the stack is cleared
\* first, then the decode either fails (the ? returns the error) or the new
\* W x H version is pushed.
LoadDecoded(name, decodes, W, H) ==
    /\ ~panicked
    /\ Called(name)
    /\ budget.loads > 0
    /\ images' = IF decodes THEN <<NewSplittedImage(W, H)>> ELSE <<>>
    /\ loaded' = (loaded \/ decodes)
    /\ budget' = Spend("loads")
    /\ calls' = <<>>
    /\ job' = NoJob
    /\ UNCHANGED <<plugins, position, total, finished, panicked>>

load_image ==
    \/ LoadDecoded("load_image", FALSE, 1, 1)
    \/ \E W \in 1..budget.w, H \in 1..budget.h :
           LoadDecoded("load_image", TRUE, W, H)

load_image_data ==
    \/ LoadDecoded("load_image_data", FALSE, 1, 1)
    \/ \E W \in 1..budget.w, H \in 1..budget.h :
           LoadDecoded("load_image_data", TRUE, W, H)

load_image_rgba ==
    \E W \in 1..budget.w, H \in 1..budget.h :
        /\ ~panicked
        /\ Called("load_image_rgba")
        /\ budget.loads > 0
        /\ images' = <<NewSplittedImage(W, H)>>
        /\ loaded' = TRUE
        /\ budget' = Spend("loads")
        /\ calls' = <<>>
        /\ job' = NoJob
        /\ UNCHANGED <<plugins, position, total, finished, panicked>>

(* ------------------------------- chain --------------------------------- *)
\* load_plugin -> insert_plugin: push a loaded handle and initialize it.
load_plugin ==
    \E kind \in budget.kinds :
        /\ ~panicked
        /\ Called("load_plugin")
        /\ budget.inserts > 0
        /\ plugins' = Append(plugins, NewPlugin(kind))
        /\ budget' = Spend("inserts")
        /\ calls' = <<>>
        /\ job' = NoJob
        /\ UNCHANGED <<images, position, total, finished, panicked, loaded>>

\* A project is opened whose descriptor names a missing binary: the handle
\* joins the chain with instance = None.
open_missing_plugin ==
    /\ ~panicked
    /\ Called("open_missing_plugin")
    /\ budget.inserts > 0
    /\ plugins' = Append(plugins, MissingPlugin)
    /\ budget' = Spend("inserts")
    /\ calls' = <<>>
    /\ job' = NoJob
    /\ UNCHANGED <<images, position, total, finished, panicked, loaded>>

\* Vec::remove(i) with a 0-based index.
RemoveAt(s, i) == SubSeq(s, 1, i) \o SubSeq(s, i + 2, Len(s))

\* Faulty variant: the entry is dropped without suspending its instance.
RemoveCallsNoSuspend(p, id) ==
    <<[op |-> "drop", id |-> id, resumed |-> p.resumed,
       started |-> p.started, block |-> p.block, len |-> 0]>>

\* remove_plugin, lines 177-180: what happens to the handle, in order.
RemoveCalls(p, id) ==
    (IF p.instance THEN <<Call("suspend", id + 1, p, 0)>> ELSE <<>>)
    \o <<[op |-> "drop", id |-> id, resumed |-> FALSE,
          started |-> p.started, block |-> p.block, len |-> 0]>>

\* remove_plugin(id): suspend the instance if there is one, then drop the
\* chain entry.  An id outside the chain panics on plugins[id].
remove_plugin ==
    \E id \in 0..(MaxPlugins - 1) :
        /\ ~panicked
        /\ Called("remove_plugin")
        /\ IF id >= Len(plugins)
           THEN /\ panicked' = TRUE
                /\ UNCHANGED <<plugins, calls>>
           ELSE /\ calls' = RemoveCalls(plugins[id + 1], id)
                /\ plugins' = RemoveAt(plugins, id)
                /\ UNCHANGED panicked
        /\ job' = NoJob
        /\ UNCHANGED <<images, position, total, finished, loaded, budget>>

\* Action::Bypass(id) of the shell flips the bypass flag of a handle.
toggle_bypass ==
    \E id \in 0..(Len(plugins) - 1) :
        /\ ~panicked
        /\ Called("toggle_bypass")
        /\ plugins' = [plugins EXCEPT ![id + 1].bypass = ~@]
        /\ calls' = <<>>
        /\ job' = NoJob
        /\ UNCHANGED <<images, position, total, finished, panicked, loaded,
                       budget>>

(* -------------------------------- undo --------------------------------- *)
\* Faulty variant: the newest version is dropped whenever there is one.
UndoImagesNoFloor(imgs) ==
    IF Len(imgs) > 1
    THEN [Front(imgs) EXCEPT ![Len(imgs) - 1] = request_all_update(@)]
    ELSE <<>>

\* undo: with more than one version, drop the newest and mark the new live
\* version dirty.
UndoImages(imgs) ==
    IF Len(imgs) > 1
    THEN [Front(imgs) EXCEPT ![Len(imgs) - 1] = request_all_update(@)]
    ELSE imgs

undo ==
    /\ ~panicked
    /\ Called("undo")
    /\ images' = UndoImages(images)
    /\ calls' = <<>>
    /\ job' = [job EXCEPT !.clean = FALSE, !.steps = 0]
    /\ UNCHANGED <<plugins, position, total, finished, panicked, loaded, budget>>

\* The renderer draws the live version and clears its dirty flags.
render ==
    /\ ~panicked
    /\ Len(images) >= 1
    /\ images' = [images EXCEPT ![Len(images)].splits =
                     [i \in 1..Len(@) |-> [@[i] EXCEPT !.needs_update = FALSE]]]
    /\ calls' = <<>>
    /\ UNCHANGED <<plugins, position, total, finished, panicked, job, loaded,
                   last, budget>>

(* ------------------------------- the job ------------------------------- *)
\* Faulty variant: the clone is pushed and no version is removed.
StartImagesNoEvict(imgs) == Append(imgs, Last(imgs))

\* start_process, lines 188-194: clone the live version; with two or more
\* versions remove(1); push the clone.
StartImages(imgs) ==
    LET img == Last(imgs)
        kept == IF Len(imgs) >= 2 THEN RemoveAt(imgs, 1) ELSE imgs
    IN  Append(kept, img)

\* Faulty variant: only a missing image makes start_process return early.
StartIsNoOpImageOnly(ps, imgs) == Len(imgs) = 0

\* start_process, line 184: the early return.
StartIsNoOp(ps, imgs) == Len(ps) = 0 \/ Len(imgs) = 0

\* Faulty variant: the tile count itself.
JobTotalTileCount(img) == Len(img.splits)

\* start_process, line 197: total = splits.len() - 1.
JobTotal(img) == Len(img.splits) - 1

\* Faulty variant: bypassed handles are skipped as well.
RenegotiatedEnabledOnly(p) == p.instance /\ ~p.bypass

\* start_process, lines 200-204: only a handle without an instance is
\* skipped.
Renegotiated(p) == p.instance

\* start_process, lines 199-211: suspend, set_block_size, resume on every
\* handle that has an instance.
StartPlugin(p) ==
    IF Renegotiated(p)
    THEN [p EXCEPT !.resumed = TRUE, !.block = JobBlockSize]
    ELSE p

RECURSIVE StartCalls(_, _)
StartCalls(ps, i) ==
    IF i > Len(ps) THEN <<>>
    ELSE (IF Renegotiated(ps[i])
          THEN << Call("suspend", i, ps[i], 0),
                  Call("set_block_size", i, [ps[i] EXCEPT !.resumed = FALSE], 0),
                  Call("resume", i,
                       [ps[i] EXCEPT !.resumed = FALSE, !.block = JobBlockSize],
                       0) >>
          ELSE <<>>)
         \o StartCalls(ps, i + 1)

start_process ==
    /\ ~panicked
    /\ Called("start_process")
    /\ IF StartIsNoOp(plugins, images)
       THEN /\ calls' = <<>>
            /\ job' = NoJob
            /\ UNCHANGED <<plugins, images, position, total, finished, budget>>
       ELSE /\ budget.jobs > 0
            /\ images' = StartImages(images)
            /\ finished' = FALSE
            /\ position' = 0
            /\ total' = JobTotal(Last(images'))
            /\ plugins' = [i \in 1..Len(plugins) |-> StartPlugin(plugins[i])]
            /\ calls' = StartCalls(plugins, 1)
            /\ job' = [clean |-> TRUE, steps |-> 0,
                       n |-> Len(Last(images).splits),
                       base |-> Pixels(Last(images))]
            /\ budget' = Spend("jobs")
    /\ UNCHANGED <<panicked, loaded>>

\* stop_process: remove the last version (len - 1 underflows on an empty
\* stack), reset the job, mark the new last version dirty (unwrap of None
\* when the stack became empty).
stop_process ==
    /\ ~panicked
    /\ Called("stop_process")
    /\ IF Len(images) <= 1
       THEN /\ panicked' = TRUE
            /\ UNCHANGED <<images, position, total, finished>>
       ELSE /\ images' = [Front(images) EXCEPT
                             ![Len(images) - 1] = request_all_update(@)]
            /\ finished' = TRUE
            /\ position' = 0
            /\ total' = 0
            /\ UNCHANGED panicked
    /\ calls' = <<>>
    /\ job' = NoJob
    /\ UNCHANGED <<plugins, loaded, budget>>

\* process_next, lines 237-287: the tile at `position` goes through every
\* active handle in chain order.
RECURSIVE RunChain(_, _, _)
RunChain(ps, i, data) ==
    IF i > Len(ps) THEN data
    ELSE RunChain(ps, i + 1,
                  IF Active(ps[i]) THEN WriteBack(ps[i], data) ELSE data)

RECURSIVE StepCalls(_, _, _)
StepCalls(ps, i, data) ==
    IF i > Len(ps) THEN <<>>
    ELSE IF Active(ps[i])
         THEN << Call("start_process", i, ps[i], 0),
                 Call("process", i, [ps[i] EXCEPT !.started = TRUE],
                      Len(InputBuffer(data))) >>
              \o StepCalls(ps, i + 1, WriteBack(ps[i], data))
         ELSE StepCalls(ps, i + 1, data)

StepPlugin(p) == IF Active(p) THEN [p EXCEPT !.started = TRUE] ELSE p

\* Faulty variant: the job completes only once position has passed total.
StepDonePastTotal(pos, tot) == tot < pos

\* process_next, line 290: the step that finds total <= position completes
\* the job, any other step advances position.
StepDone(pos, tot) == tot <= pos

\* Faulty variant: only the handles the step ran are stopped.
GetsStoppedActiveOnly(p) == Active(p)

\* process_next, line 293: every handle with an instance is stopped.
GetsStopped(p) == p.instance

\* process_next, lines 290-297: on completion stop_process and suspend go
\* to every handle that has an instance.
FinishPlugin(p) ==
    IF GetsStopped(p) THEN [p EXCEPT !.started = FALSE, !.resumed = FALSE] ELSE p

RECURSIVE FinishCalls(_, _)
FinishCalls(ps, i) ==
    IF i > Len(ps) THEN <<>>
    ELSE (IF GetsStopped(ps[i])
          THEN << Call("stop_process", i, ps[i], 0),
                  Call("suspend", i, [ps[i] EXCEPT !.started = FALSE], 0) >>
          ELSE <<>>)
         \o FinishCalls(ps, i + 1)

process_next ==
    /\ ~panicked
    /\ Called("process_next")
    /\ IF Len(plugins) = 0
       THEN /\ finished' = TRUE
            /\ calls' = <<>>
            /\ job' = NoJob
            /\ UNCHANGED <<plugins, images, position, panicked>>
       ELSE IF finished
       THEN /\ calls' = <<>>
            /\ job' = job
            /\ UNCHANGED <<plugins, images, position, finished, panicked>>
       ELSE IF Len(images) = 0 \/ position >= Len(Last(images).splits)
       THEN /\ panicked' = TRUE
            /\ UNCHANGED <<plugins, images, position, finished, calls, job>>
       ELSE LET live == Last(images)
                tile == live.splits[position + 1]
                done == [tile EXCEPT !.data = RunChain(plugins, 1, tile.data),
                                     !.needs_update = TRUE]
                stepped == [i \in 1..Len(plugins) |-> StepPlugin(plugins[i])]
            IN  /\ images' = [images EXCEPT
                                 ![Len(images)].splits[position + 1] = done]
                /\ IF StepDone(position, total)
                   THEN /\ finished' = TRUE
                        /\ plugins' = [i \in 1..Len(plugins) |->
                                          FinishPlugin(stepped[i])]
                        /\ calls' = StepCalls(plugins, 1, tile.data)
                                    \o FinishCalls(stepped, 1)
                        /\ UNCHANGED position
                   ELSE /\ position' = position + 1
                        /\ plugins' = stepped
                        /\ calls' = StepCalls(plugins, 1, tile.data)
                        /\ UNCHANGED finished
                /\ job' = IF job.clean
                          THEN [job EXCEPT !.steps = @ + 1]
                          ELSE job
                /\ UNCHANGED panicked
    /\ UNCHANGED <<total, loaded, budget>>

(* --------------------------- area processing --------------------------- *)
\* The rectangles a caller passes for an image: inside the image and
\* confined to one tile of the row-major grid.
AreasOf(img) ==
    UNION { { [x |-> ax, y |-> ay, width |-> aw, height |-> ah] :
                <<ax, ay, aw, ah>> \in
                    { q \in (t.x..(t.x + t.w - 1)) \X (t.y..(t.y + t.h - 1))
                            \X (1..t.w) \X (1..t.h) :
                        /\ q[1] + q[3] <= t.x + t.w
                        /\ q[2] + q[4] <= t.y + t.h } } :
            t \in { img.splits[i] : i \in 1..Len(img.splits) } }

\* The tile of the row-major grid that contains pixel (x, y), 0-based.
OwningTile(img, ax, ay) ==
    CHOOSE i \in 0..(Len(img.splits) - 1) :
        LET t == img.splits[i + 1]
        IN  /\ ax \in t.x..(t.x + t.w - 1)
            /\ ay \in t.y..(t.y + t.h - 1)

\* process_area, lines 326-332: the index of the tile it works on.
AreaTileIndex(img, area) ==
    LET chunk_x == area.x \div IMAGE_SPLIT_W
        chunk_y == area.y \div IMAGE_SPLIT_H
        orig_width_tiles == img.width \div IMAGE_SPLIT_W
    IN  orig_width_tiles * chunk_y + chunk_x

\* process_area, lines 334-335: the offset of the crop inside that tile.
AreaOffsetX(t, area) == area.x % t.w
AreaOffsetY(t, area) == area.y % t.h

\* One iteration of process_area's loop on tile t: crop_imm (clipped to the
\* tile), the process call, the write-back and imageops::replace.
AreaTile(p, t, area) ==
    LET xf == AreaOffsetX(t, area)
        yf == AreaOffsetY(t, area)
        cw == Min(area.width, t.w - xf)
        ch == Min(area.height, t.h - yf)
        crop == [k \in 1..(cw * ch) |->
                    t.data[(yf + ((k - 1) \div cw)) * t.w
                           + xf + ((k - 1) % cw) + 1]]
        new == WriteBack(p, crop)
    IN  [t EXCEPT
            !.data = [j \in 1..Len(t.data) |->
                        LET px == (j - 1) % t.w
                            py == (j - 1) \div t.w
                        IN  IF /\ px \in xf..(xf + cw - 1)
                               /\ py \in yf..(yf + ch - 1)
                            THEN new[(py - yf) * cw + (px - xf) + 1]
                            ELSE t.data[j]],
            !.needs_update = TRUE]

\* Length of the channel buffers process_area binds for tile t.
AreaBufferLen(t, area) ==
    LET xf == AreaOffsetX(t, area)
        yf == AreaOffsetY(t, area)
    IN  Min(area.width, t.w - xf) * Min(area.height, t.h - yf) + 1

RECURSIVE AreaChain(_, _, _, _)
AreaChain(ps, i, img, area) ==
    IF i > Len(ps) THEN img
    ELSE IF Active(ps[i])
         THEN LET idx == AreaTileIndex(img, area)
              IN  AreaChain(ps, i + 1,
                            [img EXCEPT !.splits[idx + 1] =
                                AreaTile(ps[i], @, area)],
                            area)
         ELSE AreaChain(ps, i + 1, img, area)

AreaPlugin(p, area) ==
    IF Active(p)
    THEN [p EXCEPT !.resumed = FALSE, !.started = FALSE,
                   !.block = area.width * area.height]
    ELSE p

RECURSIVE AreaCalls(_, _, _, _)
AreaCalls(ps, i, img, area) ==
    IF i > Len(ps) THEN <<>>
    ELSE IF Active(ps[i])
         THEN LET p == ps[i]
                  blk == area.width * area.height
                  t == img.splits[AreaTileIndex(img, area) + 1]
                  s1 == [p EXCEPT !.resumed = FALSE]
                  s2 == [s1 EXCEPT !.block = blk]
                  s3 == [s2 EXCEPT !.resumed = TRUE]
                  s4 == [s3 EXCEPT !.started = TRUE]
                  s5 == [s4 EXCEPT !.started = FALSE]
              IN  << Call("suspend", i, p, 0),
                     Call("set_block_size", i, s1, 0),
                     Call("resume", i, s2, 0),
                     Call("start_process", i, s3, 0),
                     Call("process", i, s4, AreaBufferLen(t, area)),
                     Call("stop_process", i, s4, 0),
                     Call("suspend", i, s5, 0) >>
                  \o AreaCalls(ps, i + 1,
                               [img EXCEPT
                                   !.splits[AreaTileIndex(img, area) + 1] =
                                       AreaTile(p, @, area)],
                               area)
         ELSE AreaCalls(ps, i + 1, img, area)

AnyActive(ps) == \E i \in 1..Len(ps) : Active(ps[i])

ProcessArea(area) ==
    /\ ~panicked
    /\ Called("process_area")
    /\ budget.areas > 0
    /\ IF ~AnyActive(plugins)
       THEN /\ calls' = <<>>
            /\ UNCHANGED <<plugins, images, panicked>>
       ELSE IF \/ Len(images) = 0
               \/ AreaTileIndex(Last(images), area) >= Len(Last(images).splits)
       THEN /\ panicked' = TRUE
            /\ UNCHANGED <<plugins, images, calls>>
       ELSE /\ images' = [images EXCEPT ![Len(images)] =
                             AreaChain(plugins, 1, @, area)]
            /\ plugins' = [i \in 1..Len(plugins) |->
                              AreaPlugin(plugins[i], area)]
            /\ calls' = AreaCalls(plugins, 1, Last(images), area)
            /\ UNCHANGED panicked
    /\ budget' = Spend("areas")
    /\ job' = NoJob
    /\ UNCHANGED <<position, total, finished, loaded>>

process_area ==
    \E area \in (IF Len(images) = 0
                 THEN { [x |-> 0, y |-> 0, width |-> 1, height |-> 1] }
                 ELSE AreasOf(Last(images))) :
        ProcessArea(area)

(* ---------------------------- specification ---------------------------- *)
Next ==
    \/ load_image
    \/ load_image_data
    \/ load_image_rgba
    \/ load_plugin
    \/ open_missing_plugin
    \/ remove_plugin
    \/ toggle_bypass
    \/ undo
    \/ start_process
    \/ stop_process
    \/ process_next
    \/ process_area

\* Every operation of the rack in any order, on images one pixel wide (one
\* tile per IMAGE_SPLIT_H rows); the renderer never clears a dirty flag.
Init ==
    NewRack([w |-> 1, h |-> MaxH, loads |-> MaxLoads, jobs |-> MaxJobs,
             areas |-> MaxAreas, inserts |-> 1, kinds |-> PluginKinds])

Spec == Init /\ [][Next]_vars

\* Jobs on one image of any size up to MaxW x MaxH, with units that change
\* pixels or have no input: load, build the chain, start, step, cancel, undo,
\* and the renderer.
InitJob ==
    NewRack([w |-> MaxW, h |-> MaxH, loads |-> 1, jobs |-> MaxJobs,
             areas |-> 0, inserts |-> MaxPlugins,
             kinds |-> {InvertUnit, GeneratorUnit}])

NextJob ==
    \/ load_image_rgba
    \/ load_plugin
    \/ render
    \/ start_process
    \/ process_next
    \/ stop_process
    \/ undo

SpecJob == InitJob /\ [][NextJob]_vars

\* Area processing on one image of any size up to MaxW x MaxH.
InitArea ==
    NewRack([w |-> MaxW, h |-> MaxH, loads |-> 1, jobs |-> 0,
             areas |-> MaxAreas, inserts |-> MaxPlugins,
             kinds |-> PluginKinds])

NextArea ==
    \/ load_image_rgba
    \/ load_plugin
    \/ render
    \/ process_area

SpecArea == InitArea /\ [][NextArea]_vars

\* One job on one image two pixels wide, with a chain of up to
\* MaxPlugins + 1 handles: loaded units that copy or have no input, handles
\* whose binary is missing, and the bypass switch.
InitChain ==
    NewRack([w |-> 2, h |-> MaxH, loads |-> 1, jobs |-> 1, areas |-> 0,
             inserts |-> MaxPlugins + 1, kinds |-> {CopyUnit, GeneratorUnit}])

NextChain ==
    \/ load_image_rgba
    \/ load_plugin
    \/ open_missing_plugin
    \/ toggle_bypass
    \/ start_process
    \/ process_next

SpecChain == InitChain /\ [][NextChain]_vars

(* ------------------------------- claims -------------------------------- *)
\* The job started last has run to completion through process_next alone.
JobComplete == job.clean /\ finished /\ job.steps >= job.n

\* C1: in a job on n tiles that nothing disturbs, the k-th process_next
\* call (k <= n) finds the job unfinished at position k - 1, changes tile
\* k - 1 only and leaves it dirty, and finishes the job exactly when k = n;
\* any later call finds the job finished and changes no tile.
C1_StepsToCompletion ==
    [][ (job.clean /\ process_next) =>
            LET k == job.steps + 1
            IN  IF k <= job.n
                THEN /\ ~finished
                     /\ ~panicked'
                     /\ position = k - 1
                     /\ finished' <=> (k = job.n)
                     /\ Len(Last(images').splits) = job.n
                     /\ Last(images').splits[k].needs_update
                     /\ \A j \in 1..job.n :
                            j # k => Last(images').splits[j]
                                     = Last(images).splits[j]
                ELSE finished /\ finished' /\ images' = images ]_vars

\* C1 witness: a 2 x 2 grid was finished by its fourth step.
C1_Witness ==
    /\ job.clean /\ job.n = 4 /\ job.steps = 4 /\ finished
    /\ last.op = "process_next"

\* C2: after a job has run to completion, one undo() makes the version that
\* was live when the job started the live version again.
C2_UndoRestoresPreJobVersion ==
    [][ (JobComplete /\ undo) => Pixels(Last(images')) = job.base ]_vars

\* C3: stop_process after start_process and any number of process_next calls
\* drops the working copy, leaves the job Idle, makes the live version equal
\* to the version that was live when the job started, all tiles dirty.
C3_CancelRevertsToPreJobVersion ==
    [][ (job.clean /\ stop_process) =>
            /\ ~panicked'
            /\ finished' /\ position' = 0 /\ total' = 0
            /\ Len(images') = Len(images) - 1
            /\ Pixels(Last(images')) = job.base
            /\ AllDirty(Last(images')) ]_vars

\* C4: undo() at the history floor (one version or none) changes neither the
\* stack nor the job state; above the floor it removes the newest version
\* only, marks every tile of the new live version dirty and keeps its
\* pixels and the job state.
C4_UndoFloor ==
    [][ undo =>
            /\ position' = position /\ total' = total /\ finished' = finished
            /\ IF Len(images) <= 1
               THEN images' = images
               ELSE /\ Len(images') = Len(images) - 1
                    /\ \A i \in 1..(Len(images') - 1) : images'[i] = images[i]
                    /\ Pixels(Last(images')) = Pixels(images[Len(images) - 1])
                    /\ AllDirty(Last(images')) ]_vars

\* C4 witness: undo() was called on a one-version stack while the job state
\* was not the initial one.
C4_Witness ==
    /\ last.op = "undo" /\ last.depth = 1 /\ Len(images) = 1
    /\ total > 0 /\ ~finished

\* C5: within an undisturbed job, compute_complete_percentage() does not
\* decrease from one process_next call to the next.
C5_ProgressMonotone ==
    [][ (job.clean /\ process_next) =>
            Percentage(position', total') >= Percentage(position, total) ]_vars

\* C5 witness: a job is part way through, progress strictly between 0 and 100.
C5_Witness ==
    /\ job.clean /\ last.op = "process_next" /\ ~finished
    /\ compute_complete_percentage \in 1..99

\* C6: when a job reaches Complete through process_next,
\* compute_complete_percentage() is exactly 100.
C6_CompleteIsHundred ==
    JobComplete => compute_complete_percentage = 100

\* C7 as stated: start_process with an empty chain on a loaded image
\* completes at once with position = total = tile_count - 1, pixels unchanged.
C7_EmptyChainCompletes ==
    [][ (start_process /\ Len(plugins) = 0 /\ Len(images) >= 1) =>
            /\ finished'
            /\ position' = total'
            /\ total' = Len(Last(images).splits) - 1
            /\ Len(images') >= 1
            /\ Pixels(Last(images')) = Pixels(Last(images)) ]_vars

\* C7 amended: start_process with an empty chain on a loaded image is a
\* no-op: finished, position, total and the version stack keep their values.
C7_EmptyChainNoOp ==
    [][ (start_process /\ Len(plugins) = 0 /\ Len(images) >= 1) =>
            /\ finished' = finished
            /\ position' = position
            /\ total' = total
            /\ images' = images ]_vars

\* C7 witness: start_process was called with an empty chain on a loaded
\* image of two tiles or more.
C7_Witness ==
    /\ last.op = "start_process" /\ Len(plugins) = 0 /\ Len(images) >= 1
    /\ Len(Last(images).splits) >= 2

\* C8: removing the only unit of a running job suspends its instance and
\* then drops the entry; every process_next on the empty chain sets
\* finished and changes no pixel, calls no plugin, keeps position.
C8_RemoveOnlyUnitMidJob ==
    /\ [][ ( /\ remove_plugin /\ ~panicked'
             /\ Len(plugins) = 1 /\ ~finished /\ plugins[1].instance ) =>
               /\ Len(plugins') = 0
               /\ Len(calls') = 2
               /\ calls'[1].op = "suspend" /\ calls'[1].id = 0
               /\ calls'[2].op = "drop" /\ calls'[2].id = 0 ]_vars
    /\ [][ (process_next /\ Len(plugins) = 0) =>
               /\ finished'
               /\ images' = images
               /\ position' = position
               /\ calls' = <<>>
               /\ plugins' = plugins ]_vars

\* C8 witness: a process_next on the emptied chain has finished a job that
\* was part way through.
C8_Witness ==
    /\ last.op = "process_next" /\ Len(plugins) = 0
    /\ finished /\ position < total

\* C9: process_area on a rectangle confined to tile T, with an active unit,
\* changes pixels inside that rectangle of T only and sets the dirty flag of
\* T only.
C9_AreaTouchesOwningTileOnly ==
    [][ \A area \in (IF Len(images) = 0 THEN {} ELSE AreasOf(Last(images))) :
          (ProcessArea(area) /\ AnyActive(plugins)) =>
            LET before == Last(images)
                after == Last(images')
                T == OwningTile(before, area.x, area.y) + 1
                t == before.splits[T]
            IN  /\ ~panicked'
                /\ after.splits[T].needs_update
                /\ \A i \in 1..Len(before.splits) :
                       i # T => after.splits[i] = before.splits[i]
                /\ \A j \in 1..Len(t.data) :
                       LET px == t.x + ((j - 1) % t.w)
                           py == t.y + ((j - 1) \div t.w)
                       IN  ( \/ px \notin area.x..(area.x + area.width - 1)
                             \/ py \notin area.y..(area.y + area.height - 1) )
                           => after.splits[T].data[j] = t.data[j] ]_vars

\* C10: once an image has been loaded, the version stack is never empty and
\* no operation fails on it.
C10_StackNonEmptyOnceLoaded ==
    loaded => (Len(images) >= 1 /\ ~panicked)

\* C11: in every reachable state 0 <= position <= total, the percentage
\* lies in 0..100, and it is 0 whenever total is 0.
C11_PositionWithinTotal ==
    /\ 0 <= position
    /\ position <= total
    /\ compute_complete_percentage \in 0..100
    /\ (total = 0 => compute_complete_percentage = 0)

\* C11 witness: a step has brought position up to a total above zero.
C11_Witness ==
    last.op = "process_next" /\ total > 0 /\ position = total

\* C12: in every reachable state finished is true exactly when position has
\* reached total or the chain is empty.
C12_FinishedIffReachedTotal ==
    finished <=> (position >= total \/ Len(plugins) = 0)

\* C13: start_process changes nothing and calls no plugin when the chain is
\* empty or no image is loaded; otherwise it sets finished = false,
\* position = 0, total = tile count of the live version - 1, and the calls it
\* makes are suspend, set_block_size, resume, in that order, on every handle
\* that has an instance, handle after handle in chain order.
C13_StartProcessEffect ==
    [][ start_process =>
            IF Len(plugins) = 0 \/ Len(images) = 0
            THEN /\ images' = images
                 /\ position' = position
                 /\ total' = total
                 /\ finished' = finished
                 /\ plugins' = plugins
                 /\ calls' = <<>>
            ELSE LET ids == SelectSeq([i \in 1..Len(plugins) |-> i],
                                      LAMBDA i : plugins[i].instance)
                 IN  /\ ~finished'
                     /\ position' = 0
                     /\ total' = Len(Last(images).splits) - 1
                     /\ Len(Last(images').splits) = Len(Last(images).splits)
                     /\ Len(calls') = 3 * Len(ids)
                     /\ \A j \in 1..Len(ids) :
                            /\ calls'[3 * j - 2].op = "suspend"
                            /\ calls'[3 * j - 1].op = "set_block_size"
                            /\ calls'[3 * j].op = "resume"
                            /\ \A c \in (3 * j - 2)..(3 * j) :
                                   calls'[c].id = ids[j] - 1
                            /\ plugins'[ids[j]].resumed ]_vars

\* C13 witness: a job was started on a chain that holds a bypassed loaded
\* handle and a handle without an instance.
C13_Witness ==
    /\ last.op = "start_process"
    /\ ~finished
    /\ \E i, j \in 1..Len(plugins) :
           /\ plugins[i].instance /\ plugins[i].bypass
           /\ ~plugins[j].instance
    /\ Len(calls) >= 3

\* C14: every process call reaches an instance that is resumed (its last
\* suspend / resume call was resume) and started (start_process with no
\* stop_process since).
C14_ProcessOnlyWhileResumedAndStarted ==
    \A i \in 1..Len(calls) :
        calls[i].op = "process" => (calls[i].resumed /\ calls[i].started)

\* C15: no operation leaves more than two versions on the stack, and every
\* load of an image (a load_image_rgba call, or a load_image or
\* load_image_data call that leaves an image) leaves exactly one version.
C15_AtMostTwoVersions ==
    [][ /\ Len(images') <= 2
        /\ ( ( /\ budget'.loads < budget.loads
               /\ (last'.op = "load_image_rgba" \/ images' # <<>>) )
             => Len(images') = 1 ) ]_vars

\* C15 witness: a second job was started while two versions were held.
C15_Witness ==
    /\ last.op = "start_process"
    /\ last.depth = 2
    /\ Len(images) = 2

\* C16: in every process call the length of each channel buffer equals the
\* block size last given to that instance by set_block_size.
C16_BufferLengthIsBlockSize ==
    \A i \in 1..Len(calls) :
        calls[i].op = "process" => calls[i].len = calls[i].block

\* C17: the process_next call that completes a job ends with stop_process
\* and then suspend on every handle that has an instance, bypassed ones
\* included, handle after handle; a process_next call made while finished is
\* true changes no image, neither position nor total, and calls no plugin.
C17_CompletionStopsEveryInstance ==
    [][ process_next =>
            IF finished
            THEN /\ images' = images
                 /\ position' = position
                 /\ total' = total
                 /\ plugins' = plugins
                 /\ finished'
                 /\ calls' = <<>>
            ELSE (Len(plugins) > 0 /\ total <= position /\ ~panicked') =>
                 LET ids == SelectSeq([i \in 1..Len(plugins) |-> i],
                                      LAMBDA i : plugins[i].instance)
                     base == Len(calls') - 2 * Len(ids)
                 IN  /\ finished'
                     /\ base >= 0
                     /\ \A c \in 1..base :
                            calls'[c].op \in {"start_process", "process"}
                     /\ \A j \in 1..Len(ids) :
                            /\ calls'[base + 2 * j - 1].op = "stop_process"
                            /\ calls'[base + 2 * j].op = "suspend"
                            /\ calls'[base + 2 * j - 1].id = ids[j] - 1
                            /\ calls'[base + 2 * j].id = ids[j] - 1
                            /\ ~plugins'[ids[j]].resumed
                            /\ ~plugins'[ids[j]].started ]_vars

\* C17 witness: a job was completed on a chain that holds a bypassed handle
\* with an instance, and that handle was stopped.
C17_Witness ==
    /\ last.op = "process_next"
    /\ finished
    /\ \E c \in 1..Len(calls) :
           /\ calls[c].op = "stop_process"
           /\ plugins[calls[c].id + 1].bypass

\* C18: whenever a job is running (finished = false, chain not empty) the
\* version stack is not empty and position is a tile index of the live
\* version, and no process_next call panics.
C18_PositionIsLiveTile ==
    /\ (~finished /\ Len(plugins) > 0) =>
           /\ Len(images) >= 1
           /\ position < Len(Last(images).splits)
    /\ ~(panicked /\ last.op = "process_next")

\* C19: while the job started last is running, the stack holds the version
\* that was live when it started, with the pixels it had then, below a
\* separate working copy.
C19_PreJobVersionKept ==
    (job.n > 0 /\ ~finished /\ Len(plugins) > 0) =>
        /\ Len(images) >= 2
        /\ Pixels(images[Len(images) - 1]) = job.base

\* C20: a process_next step whose only active handle is a unit that copies
\* input to output writes every pixel of the tile back from that pixel's own
\* sample.
C20_PixelFromOwnSample ==
    [][ ( /\ process_next
          /\ ~finished
          /\ ~panicked'
          /\ Cardinality({i \in 1..Len(plugins) : Active(plugins[i])}) = 1
          /\ \A i \in 1..Len(plugins) :
                 Active(plugins[i]) => plugins[i].effect = "copy" )
        => LET old == Last(images).splits[position + 1].data
               new == Last(images').splits[position + 1].data
           IN  \A k \in 1..Len(old) :
                   new[k] = sample_to_rgba(rgba_to_sample(old[k]), WetOne,
                                           old[k]) ]_vars

====
